---- MODULE Spec2Model ----
(***************************************************************************)
(* Model of the two multitrack download pipelines                          *)
(*   download_full_multitracks.py        (pipeline "full")                 *)
(*   download_telefunken_multitracks.py  (pipeline "telefunken")           *)
(* and of the helpers they share in download_utils.py.                     *)
(*                                                                         *)
(* main() is modelled as a sequential program whose position is pc; every  *)
(* answer of the network and every content of the disk is an input drawn   *)
(* from a small set.                                                       *)
(***************************************************************************)
EXTENDS Integers, Sequences, FiniteSets, TLC

\* ------------------------------------------------------------------ bounds
MaxBlocks == 3      \* download blocks on the index page (full)
MaxLinks == 2       \* links of the JSON list, anchors of the listing page and
                    \* detail pages of the site (telefunken)
MaxAnchors == 2     \* anchors on one detail page (telefunken)
MaxExisting == 1    \* entries on disk before the run
MaxDirs == 2        \* directories handed to gather_existing_files

\* ------------------------------------------------------------- vocabulary
Names == {"a.zip", "A.zip", "b.zip"}

None == "None"

\* str.lower() on the file names of the model
Lower(name) == IF name = "A.zip" THEN "a.zip" ELSE name

\* what a path of the target directory is: nothing, a regular file that was
\* there before the run, a directory, a file this program opened and did not
\* finish writing, a file this program wrote completely
FileKinds == {"none", "old", "dir", "partial", "full"}

Delays == {0, 2}

\* response bodies of an archive GET, as the chunk lengths iter_content
\* yields (0 is an empty keep-alive chunk)
Bodies == {<<1>>, <<0, 2>>}

RECURSIVE SortedSeq(_)
\* sorted(set): the elements of a set of integers in increasing order
SortedSeq(S) ==
    IF S = {} THEN <<>>
    ELSE LET m == CHOOSE x \in S : \A y \in S : x <= y
         IN <<m>> \o SortedSeq(S \ {m})

\* Path.is_file()
IsFile(kind) == kind \in {"old", "partial", "full"}

\* Path.exists()
Exists(kind) == kind # "none"

\* -------------------------------------------------------- download_utils
RECURSIVE gather_existing_files_as_written(_)
\* variant: the names are taken as written, not lower-cased
gather_existing_files_as_written(directories) ==
    IF directories = <<>> THEN {}
    ELSE LET directory == Head(directories)
             here == IF directory.kind = "dir"
                     THEN {m \in Names : IsFile(directory.entries[m])}
                     ELSE {}
         IN here \cup gather_existing_files_as_written(Tail(directories))

RECURSIVE gather_existing_files(_)
\* directories: sequence of [kind, entries]; kind is "missing", "file" or
\* "dir", entries maps each name to its FileKind
gather_existing_files(directories) ==
    IF directories = <<>> THEN {}
    ELSE LET directory == Head(directories)
             here == IF directory.kind = "dir"
                     THEN {Lower(n) : n \in {m \in Names : IsFile(directory.entries[m])}}
                     ELSE {}
         IN here \cup gather_existing_files(Tail(directories))

RECURSIVE bytes_of(_)
\* the loop over response.iter_content: empty chunks are passed over
bytes_of(body) ==
    IF body = <<>> THEN 0
    ELSE (IF Head(body) = 0 THEN 0 ELSE Head(body)) + bytes_of(Tail(body))

\* variant: the existence test is lost, nothing is ever skipped
skips_never(kind, ow) == FALSE

\* "if destination.exists() and not overwrite", the first test of
\* download_with_progress
skips(kind, ow) == Exists(kind) /\ ~ow

\* variant: a failed request is tried a second time
download_with_progress_retry(kind, ow, resp) ==
    IF Exists(kind) /\ ~ow
    THEN [raised |-> FALSE, updated |-> FALSE, bytes |-> 0, get |-> 0, file |-> kind]
    ELSE IF resp.status # "ok"
    THEN [raised |-> TRUE, updated |-> FALSE, bytes |-> 0, get |-> 2, file |-> kind]
    ELSE IF kind = "dir"
    THEN [raised |-> TRUE, updated |-> FALSE, bytes |-> 0, get |-> 1, file |-> kind]
    ELSE IF resp.break >= 0
    THEN [raised |-> TRUE, updated |-> FALSE, bytes |-> 0, get |-> 1, file |-> "partial"]
    ELSE [raised |-> FALSE, updated |-> TRUE, bytes |-> bytes_of(resp.body),
          get |-> 1, file |-> "full"]

\* download_with_progress(session, url, destination, overwrite=...)
\*   kind: what the destination path is before the call
\*   resp: [status, body, break]; status "conn_error" (session.get raises),
\*         "http_error" (raise_for_status raises) or "ok"; break = -1 when
\*         the body arrives whole, else the number of chunks received before
\*         iter_content raises
\* result: raised (an exception left the call), updated and bytes (the
\*   returned pair), get (1 when session.get was called), file (what the
\*   destination path is after the call)
download_with_progress(kind, ow, resp) ==
    IF skips(kind, ow)
    THEN [raised |-> FALSE, updated |-> FALSE, bytes |-> 0, get |-> 0, file |-> kind]
    ELSE IF resp.status # "ok"
    THEN [raised |-> TRUE, updated |-> FALSE, bytes |-> 0, get |-> 1, file |-> kind]
    ELSE IF kind = "dir"
    THEN [raised |-> TRUE, updated |-> FALSE, bytes |-> 0, get |-> 1, file |-> kind]
    ELSE IF resp.break >= 0
    THEN [raised |-> TRUE, updated |-> FALSE, bytes |-> 0, get |-> 1, file |-> "partial"]
    ELSE [raised |-> FALSE, updated |-> TRUE, bytes |-> bytes_of(resp.body),
          get |-> 1, file |-> "full"]

Responses ==
    {[status |-> s, body |-> <<>>, break |-> -1] : s \in {"conn_error", "http_error"}}
    \cup {[status |-> "ok", body |-> b, break |-> -1] : b \in Bodies}
    \cup {[status |-> "ok", body |-> b, break |-> k] : b \in Bodies, k \in {0, 1}}

\* ------------------------------------------------- download_full_multitracks
\* The index page is the sequence of its ".m-mtk-download" blocks.  A block
\* is [kind, filename]: "notype" has no type element, "otherlabel" a label
\* that does not start with "full multitrack", "noanchor" no anchor with an
\* href, "nofilename" an href whose path has no basename, "link" an href
\* whose basename is filename.  The URL of a block is its position.
SkipKinds == {"notype", "otherlabel", "noanchor", "nofilename"}

Blocks ==
    {[kind |-> k, filename |-> None] : k \in SkipKinds}
    \cup {[kind |-> "link", filename |-> n] : n \in Names}

RECURSIVE SeqsUpTo(_, _)
\* the sequences over S of length at most n
SeqsUpTo(S, n) ==
    IF n = 0 THEN {<<>>}
    ELSE LET shorter == SeqsUpTo(S, n - 1)
         IN shorter \cup {Append(s, x) : s \in {t \in shorter : Len(t) = n - 1}, x \in S}

Pages == SeqsUpTo(Blocks, MaxBlocks)

\* dict.setdefault on an insertion-ordered map held as a sequence of
\* [filename, url] pairs
setdefault(links, filename, url) ==
    IF \E i \in 1..Len(links) : links[i].filename = filename
    THEN links
    ELSE Append(links, [filename |-> filename, url |-> url])

RECURSIVE iterate_from(_, _, _)
iterate_from(html, pos, links) ==
    IF pos > Len(html) THEN links
    ELSE LET block == html[pos]
         IN IF block.kind # "link"
            THEN iterate_from(html, pos + 1, links)
            ELSE iterate_from(html, pos + 1, setdefault(links, block.filename, pos))

iterate_full_multitrack_links(html) == iterate_from(html, 1, <<>>)

\* variant: the marker test is lost
load_index_raises_no_marker(resp) == resp.status # "ok"

\* variant: raise_for_status is lost
load_index_raises_no_status(resp) ==
    \/ resp.status = "conn_error"
    \/ resp.marker

\* load_index: the answer to the GET of the index page is [status, marker];
\* marker says whether the text holds "Verifying you are human".  TRUE when
\* the call raises.
load_index_raises(resp) ==
    \/ resp.status # "ok"
    \/ resp.marker

IndexResponses ==
    {[status |-> s, marker |-> m] : s \in {"conn_error", "http_error", "ok"}, m \in BOOLEAN}

\* ------------------------------------------- download_telefunken_multitracks
\* URLs of the site are numbers: 0 is the listing URL, 1..MaxLinks are the
\* detail pages (their path holds "/multitrack/"), OtherUrl is a page of the
\* site without that segment.
OtherUrl == MaxLinks + 1

DetailIds == 1..MaxLinks

\* "/multitrack/" in normalized: the test is made on the normalised URL as a
\* string; index_url is an argument, so the listing URL may pass it too
HasSegment(id) == id # OtherUrl

\* an href as written: the URL it names and its form, "plain", with a
\* trailing "/" or with a "#fragment"
Hrefs == {[id |-> i, form |-> f] :
            i \in {0, OtherUrl} \cup DetailIds, f \in {"plain", "slash", "frag"}}

\* full_url.split("#", 1)[0].rstrip("/")
Normalized(href) == [id |-> href.id, form |-> "plain"]

\* items of the JSON list: not a dict, a dict whose link is not a string,
\* a dict without link (or with an empty one), a dict with a link
ApiItems ==
    {[kind |-> k, id |-> 0, slash |-> FALSE] : k \in {"nondict", "nonstr", "empty"}}
    \cup {[kind |-> "link", id |-> i, slash |-> s] : i \in DetailIds, s \in BOOLEAN}

ApiResponses ==
    {[status |-> s, data |-> <<>>] : s \in {"conn_error", "http_error", "notjson", "notlist"}}
    \cup {[status |-> "ok", data |-> d] : d \in SeqsUpTo(ApiItems, MaxLinks)}

ListingResponses ==
    {[status |-> s, marker |-> FALSE, anchors |-> <<>>] : s \in {"conn_error", "http_error"}}
    \cup {[status |-> "ok", marker |-> m, anchors |-> a] :
            m \in BOOLEAN, a \in SeqsUpTo(Hrefs, MaxLinks)}

\* the links the API branch returns, or <<>> when it falls through
api_links(api) ==
    IF api.status # "ok" \/ api.data = <<>> THEN <<>>
    ELSE LET cleaned == {api.data[i].id : i \in {j \in 1..Len(api.data) :
                                                   api.data[j].kind = "link"}}
         IN SortedSeq(cleaned)

\* variant: every anchor of the listing page is kept
listing_links_unfiltered(listing) ==
    SortedSeq({Normalized(listing.anchors[i]).id : i \in 1..Len(listing.anchors)})

\* the links the HTML branch returns
listing_links(listing) ==
    LET urls == {Normalized(listing.anchors[i]).id : i \in
                   {j \in 1..Len(listing.anchors) :
                      /\ Normalized(listing.anchors[j]).id # 0
                      /\ HasSegment(Normalized(listing.anchors[j]).id)}}
    IN SortedSeq(urls)

\* fetch_catalog_detail_links, the try block: TRUE when it returns
api_returns(api) == api_links(api) # <<>>

\* fetch_catalog_detail_links, the code after the try block: TRUE when the
\* GET of the listing page raises
listing_raises(listing) == listing.status # "ok"

\* a detail page: [status, anchors]; an anchor is [match, filename] where
\* match says its text holds "download audio files" and filename is what
\* infer_filename makes of its href (None when the path has no basename, and
\* for an anchor without the text, whose href is not looked at)
DetailAnchors ==
    {[match |-> FALSE, filename |-> None]}
    \cup {[match |-> TRUE, filename |-> n] : n \in Names \cup {None}}

DetailPages ==
    {[status |-> s, anchors |-> <<>>] : s \in {"conn_error", "http_error"}}
    \cup {[status |-> "ok", anchors |-> a] : a \in SeqsUpTo(DetailAnchors, MaxAnchors)}

\* extract_download_info: [raised, filename]
extract_download_info(page) ==
    IF page.status # "ok" THEN [raised |-> TRUE, filename |-> None]
    ELSE LET hits == {i \in 1..Len(page.anchors) :
                        page.anchors[i].match /\ page.anchors[i].filename # None}
         IN IF hits = {} THEN [raised |-> TRUE, filename |-> None]
            ELSE [raised |-> FALSE,
                  filename |-> page.anchors[CHOOSE i \in hits : \A j \in hits : i <= j].filename]

\* ------------------------------------------------------------------ state
VARIABLES
    pipeline,         \* which script runs: "full" or "telefunken"
    overwrite,        \* args.overwrite
    dry_run,          \* args.dry_run
    delay,            \* args.delay
    target_files,     \* what each name is inside args.target_dir
    parent_files,     \* what each name is inside args.target_dir.parent
    pc,               \* position of main()
    cookie_read_failed,  \* reading --cookie-file raised OSError
    index_resp,       \* answer to the GET of the index/listing page
    parsed,           \* the catalogue parser has run
    link_map,         \* full: filename -> url, in insertion order
    detail_links,     \* telefunken: detail page URLs
    link_pos,         \* telefunken: detail pages handled so far
    entries,          \* telefunken: (filename, download_url, detail_url)
    existing_files,   \* result of gather_existing_files
    present_count,
    missing_count,
    to_process,       \* the work list
    index,            \* loop variable of the download loop (0-based)
    results,          \* rows of the summary table
    total_bytes,
    downloaded_count,
    failed,
    gets,             \* gets[i]: archive GETs issued for work item i
    sleeps,           \* one entry per time.sleep: items handled before it
    exit_code,        \* return value of main(), -1 while it runs
    exit_path,        \* which return statement ended main()
    warned,           \* telefunken: detail pages reported in a Warning panel
    written,          \* written[i]: bytes_written returned for work item i
    scan_dirs,        \* argument of a call of gather_existing_files
    scan_names,       \* result of that call
    run,              \* 1 in the first run of main(), 2 in the following one
    prev_results      \* the results of the run before

vars == <<pipeline, overwrite, dry_run, delay, target_files, parent_files, pc,
          cookie_read_failed,
          index_resp, parsed, link_map, detail_links, link_pos, entries,
          existing_files, present_count, missing_count, to_process, index,
          results, total_bytes, downloaded_count, failed, gets, sleeps,
          exit_code, exit_path, warned, written, scan_dirs, scan_names, run,
          prev_results>>

args == <<pipeline, overwrite, dry_run, delay, cookie_read_failed>>
disk == <<target_files, parent_files>>
fetch_state == <<index_resp, parsed, link_map, detail_links, link_pos, entries, warned>>
diff_state == <<existing_files, present_count, missing_count, to_process>>
loop_state == <<index, results, total_bytes, downloaded_count, failed, gets, sleeps,
                written>>
aside == <<scan_dirs, scan_names, run, prev_results>>

NoResponse == [status |-> "none", marker |-> FALSE]

InitialKinds == {"none", "old", "dir"}

Occupied(files) == Cardinality({n \in Names : files[n] # "none"})

Init ==
    /\ pipeline \in {"full", "telefunken"}
    /\ overwrite \in BOOLEAN
    /\ dry_run \in BOOLEAN
    /\ delay \in Delays
    /\ target_files \in [Names -> InitialKinds]
    /\ parent_files \in [Names -> {"none", "old"}]
    /\ Occupied(target_files) + Occupied(parent_files) <= MaxExisting
    /\ pc = "start"
    /\ cookie_read_failed = FALSE
    /\ index_resp = NoResponse
    /\ parsed = FALSE
    /\ link_map = <<>>
    /\ detail_links = <<>>
    /\ link_pos = 0
    /\ entries = <<>>
    /\ existing_files = {}
    /\ present_count = 0
    /\ missing_count = 0
    /\ to_process = <<>>
    /\ index = 0
    /\ results = <<>>
    /\ total_bytes = 0
    /\ downloaded_count = 0
    /\ failed = FALSE
    /\ gets = <<>>
    /\ sleeps = <<>>
    /\ exit_code = -1
    /\ exit_path = "running"
    /\ warned = {}
    /\ written = <<>>
    /\ scan_dirs = <<>>
    /\ scan_names = {}
    /\ run = 1
    /\ prev_results = <<>>

\* return <code> from main()
Return(code, path) ==
    /\ pc' = "done"
    /\ exit_code' = code
    /\ exit_path' = path

Continue(next) ==
    /\ pc' = next
    /\ UNCHANGED <<exit_code, exit_path>>

\* main(), up to the creation of the session: ensure_directory, the cookie
\* file, the prompts.  cookie_file is "absent" (no --cookie-file), "readable"
\* or "unreadable" (read_text raises OSError).
Start ==
    /\ pc = "start"
    /\ \E cookie_file \in {"absent", "readable", "unreadable"} :
         /\ cookie_read_failed' = (cookie_file = "unreadable")
         /\ IF cookie_file = "unreadable"
            THEN Return(1, "cookie_file")
            ELSE Continue("fetch")
    /\ UNCHANGED <<pipeline, overwrite, dry_run, delay, disk, fetch_state, diff_state,
                   loop_state, aside>>

\* full: load_index, the optional dump, iterate_full_multitrack_links and
\* the check for an empty map
FullFetch ==
    /\ pc = "fetch"
    /\ pipeline = "full"
    /\ \E resp \in IndexResponses :
         /\ index_resp' = resp
         /\ IF load_index_raises(resp)
            THEN /\ Return(1, "fetch_error")
                 /\ UNCHANGED <<parsed, link_map>>
            ELSE \E html \in Pages :
                   /\ parsed' = TRUE
                   /\ link_map' = iterate_full_multitrack_links(html)
                   /\ IF link_map' = <<>>
                      THEN Return(1, "no_links")
                      ELSE Continue("diff")
    /\ UNCHANGED <<args, disk, detail_links, link_pos, entries, warned, diff_state,
                   loop_state, aside>>

\* the check for an empty detail_links that follows the call
AfterDetailLinks(links) ==
    IF links = <<>> THEN Return(1, "no_links") ELSE Continue("extract")

\* telefunken: fetch_catalog_detail_links, the JSON API attempt
TeleFetchApi ==
    /\ pc = "fetch"
    /\ pipeline = "telefunken"
    /\ \E api \in ApiResponses :
         IF api_returns(api)
         THEN /\ parsed' = TRUE
              /\ detail_links' = api_links(api)
              /\ AfterDetailLinks(detail_links')
         ELSE /\ Continue("fetch_html")
              /\ UNCHANGED <<parsed, detail_links>>
    /\ UNCHANGED <<args, disk, index_resp, link_map, link_pos, entries, warned,
                   diff_state, loop_state, aside>>

\* telefunken: fetch_catalog_detail_links, the fallback to the listing page
TeleFetchListing ==
    /\ pc = "fetch_html"
    /\ \E listing \in ListingResponses :
         /\ index_resp' = [status |-> listing.status, marker |-> listing.marker]
         /\ IF listing_raises(listing)
            THEN /\ Return(1, "fetch_error")
                 /\ UNCHANGED <<parsed, detail_links>>
            ELSE /\ parsed' = TRUE
                 /\ detail_links' = listing_links(listing)
                 /\ AfterDetailLinks(detail_links')
    /\ UNCHANGED <<args, disk, link_map, link_pos, entries, warned, diff_state,
                   loop_state, aside>>

\* variant: the first detail page that fails ends the loop
OnExtractFailure_break(link) ==
    /\ warned' = warned \cup {link}
    /\ link_pos' = Len(detail_links)
    /\ UNCHANGED entries

\* the except branch of the loop over detail_links: the Warning panel and
\* "continue"
OnExtractFailure(link) ==
    /\ warned' = warned \cup {link}
    /\ link_pos' = link_pos + 1
    /\ UNCHANGED entries

\* telefunken: one turn of the loop over detail_links
TeleExtract ==
    /\ pc = "extract"
    /\ link_pos < Len(detail_links)
    /\ \E page \in DetailPages :
         LET link == detail_links[link_pos + 1]
             r == extract_download_info(page)
         IN IF r.raised
            THEN OnExtractFailure(link)
            ELSE /\ entries' = Append(entries, [filename |-> r.filename, url |-> link,
                                                detail |-> link])
                 /\ link_pos' = link_pos + 1
                 /\ UNCHANGED warned
    /\ Continue("extract")
    /\ UNCHANGED <<args, disk, index_resp, parsed, link_map, detail_links,
                   diff_state, loop_state, aside>>

\* ------------------------------------------------------------ diff engine
\* existing_dirs: the target directory and its parent
existing_dirs ==
    << [kind |-> "dir", entries |-> target_files],
       [kind |-> "dir", entries |-> parent_files] >>

RECURSIVE work_list(_, _, _)
\* the loop that fills to_process
work_list(catalog, existing, ow) ==
    IF catalog = <<>> THEN <<>>
    ELSE LET entry == Head(catalog)
             rest == work_list(Tail(catalog), existing, ow)
         IN IF Lower(entry.filename) \in existing /\ ~ow
            THEN rest
            ELSE <<entry>> \o rest

\* full: sum(1 for name in catalog_filenames if name in existing_files)
full_present_count(links, existing) ==
    LET catalog_filenames == {Lower(links[i].filename) : i \in 1..Len(links)}
    IN Cardinality({name \in catalog_filenames : name \in existing})

\* telefunken: sum(1 for filename, _, _ in entries if filename.lower() in existing_files)
tele_present_count(ents, existing) ==
    Cardinality({i \in 1..Len(ents) : Lower(ents[i].filename) \in existing})

\* variant: the dry-run test is lost
DiffOf_no_dry_run(catalog, present) ==
    /\ existing_files' = gather_existing_files(existing_dirs)
    /\ present_count' = present
    /\ to_process' = work_list(catalog, existing_files', overwrite)
    /\ missing_count' = Len(to_process')
    /\ gets' = [i \in 1..Len(to_process') |-> 0]
    /\ IF to_process' = <<>> THEN Return(0, "nothing_to_do")
       ELSE Continue("loop")
    /\ UNCHANGED <<index, results, total_bytes, downloaded_count, failed, sleeps, written>>

\* the part of main() from the inventory scan to the start of the loop
DiffOf(catalog, present) ==
    /\ existing_files' = gather_existing_files(existing_dirs)
    /\ present_count' = present
    /\ to_process' = work_list(catalog, existing_files', overwrite)
    /\ missing_count' = Len(to_process')
    /\ gets' = [i \in 1..Len(to_process') |-> 0]
    /\ IF to_process' = <<>> THEN Return(0, "nothing_to_do")
       ELSE IF dry_run THEN Return(0, "dry_run")
       ELSE Continue("loop")
    /\ UNCHANGED <<index, results, total_bytes, downloaded_count, failed, sleeps, written>>

FullDiff ==
    /\ pc = "diff"
    /\ pipeline = "full"
    /\ DiffOf(link_map, full_present_count(link_map, gather_existing_files(existing_dirs)))
    /\ UNCHANGED <<args, disk, fetch_state, aside>>

\* telefunken: after the last detail page, the check for no entries and the
\* same steps
TeleDiff ==
    /\ pc = "extract"
    /\ pipeline = "telefunken"
    /\ link_pos = Len(detail_links)
    /\ IF entries = <<>>
       THEN /\ Return(1, "no_entries")
            /\ UNCHANGED <<diff_state, loop_state>>
       ELSE DiffOf(entries, tele_present_count(entries, gather_existing_files(existing_dirs)))
    /\ UNCHANGED <<args, disk, fetch_state, aside>>

\* ---------------------------------------------------------- download loop
\* the sleep test at the end of a turn that did not fail
sleeps_after(idx, count) == delay > 0 /\ idx < count - 1

\* variant: the exception is not caught and ends main()
OnFailure_raise(filename) ==
    /\ Return(1, "exception")
    /\ UNCHANGED <<results, failed, downloaded_count, total_bytes>>

\* the except branch of the loop body: a Failed row, the flag, "continue"
OnFailure(filename) ==
    /\ results' = Append(results, [filename |-> filename, status |-> "Failed"])
    /\ failed' = TRUE
    /\ UNCHANGED <<downloaded_count, total_bytes>>
    /\ Continue("loop")

\* variant: the flag is not reported
final_code_zero(flag) == 0

\* "return 1 if failed else 0"
final_code(flag) == IF flag THEN 1 ELSE 0

\* variant: the total is assigned, not added to
new_total_assigned(total, bytes) == bytes

\* "total_bytes += bytes_written"
new_total(total, bytes) == total + bytes

\* one turn of "for index, (filename, url) in enumerate(to_process)"; when
\* the turn ends in time.sleep the sleep is the step that follows
LoopIteration ==
    /\ pc = "loop"
    /\ index < Len(to_process)
    /\ \E resp \in Responses :
         LET item == to_process[index + 1]
             r == download_with_progress(target_files[item.filename], overwrite, resp)
         IN /\ target_files' = [target_files EXCEPT ![item.filename] = r.file]
            /\ gets' = [gets EXCEPT ![index + 1] = @ + r.get]
            /\ written' = Append(written, r.bytes)
            /\ IF r.raised
               THEN OnFailure(item.filename)
               ELSE /\ IF r.updated
                       THEN /\ downloaded_count' = downloaded_count + 1
                            /\ total_bytes' = new_total(total_bytes, r.bytes)
                            /\ results' = Append(results, [filename |-> item.filename,
                                                           status |-> "Downloaded"])
                       ELSE /\ results' = Append(results, [filename |-> item.filename,
                                                           status |-> "Skipped"])
                            /\ UNCHANGED <<downloaded_count, total_bytes>>
                    /\ UNCHANGED failed
                    /\ IF sleeps_after(index, Len(to_process))
                       THEN Continue("sleep")
                       ELSE Continue("loop")
    /\ index' = index + 1
    /\ UNCHANGED <<args, parent_files, fetch_state, diff_state, sleeps, aside>>

\* time.sleep(args.delay)
Sleep ==
    /\ pc = "sleep"
    /\ sleeps' = Append(sleeps, index)
    /\ Continue("loop")
    /\ UNCHANGED <<args, disk, fetch_state, diff_state, index, results, total_bytes,
                   downloaded_count, failed, gets, written, aside>>

\* after the loop: the summary and "return 1 if failed else 0"
Finish ==
    /\ pc = "loop"
    /\ index = Len(to_process)
    /\ Return(final_code(failed), "finished")
    /\ UNCHANGED <<args, disk, fetch_state, diff_state, loop_state, aside>>

Next ==
    \/ Start
    \/ FullFetch
    \/ TeleFetchApi
    \/ TeleFetchListing
    \/ TeleExtract
    \/ FullDiff
    \/ TeleDiff
    \/ LoopIteration
    \/ Sleep
    \/ Finish

Spec == Init /\ [][Next]_vars

\* ------------------------------------------ gather_existing_files by itself
\* a candidate directory: a path that does not exist, a path that is a
\* regular file, or a directory with its entries
Directories ==
    {[kind |-> k, entries |-> [n \in Names |-> "none"]] : k \in {"missing", "file"}}
    \cup {[kind |-> "dir", entries |-> e] : e \in [Names -> InitialKinds]}

\* main() at rest: every variable of a run as Init leaves it
AtRest ==
    /\ pipeline = "full"
    /\ overwrite = FALSE
    /\ dry_run = FALSE
    /\ delay = 0
    /\ target_files = [n \in Names |-> "none"]
    /\ parent_files = [n \in Names |-> "none"]
    /\ cookie_read_failed = FALSE
    /\ index_resp = NoResponse
    /\ parsed = FALSE
    /\ link_map = <<>>
    /\ detail_links = <<>>
    /\ link_pos = 0
    /\ entries = <<>>
    /\ existing_files = {}
    /\ present_count = 0
    /\ missing_count = 0
    /\ to_process = <<>>
    /\ index = 0
    /\ results = <<>>
    /\ total_bytes = 0
    /\ downloaded_count = 0
    /\ failed = FALSE
    /\ gets = <<>>
    /\ sleeps = <<>>
    /\ exit_code = -1
    /\ exit_path = "running"
    /\ warned = {}
    /\ written = <<>>
    /\ run = 1
    /\ prev_results = <<>>

InitGather ==
    /\ AtRest
    /\ pc = "scan"
    /\ scan_dirs \in SeqsUpTo(Directories, MaxDirs)
    /\ scan_names = {}

\* one call of gather_existing_files(scan_dirs)
GatherScan ==
    /\ pc = "scan"
    /\ scan_names' = gather_existing_files(scan_dirs)
    /\ pc' = "scanned"
    /\ UNCHANGED <<args, disk, fetch_state, diff_state, loop_state, exit_code, exit_path,
                   scan_dirs, run, prev_results>>

NextGather == GatherScan

SpecGather == InitGather /\ [][NextGather]_vars

\* ------------------------------------------------------- the following run
\* main() is started again after a run that reached the diff engine: same
\* arguments, the disk as the run left it, and a site that answers as before,
\* so that the catalogue is the same and the run is taken up at the inventory
\* scan
Rerun ==
    /\ pc = "done"
    /\ run = 1
    /\ exit_path \in {"nothing_to_do", "dry_run", "finished"}
    /\ run' = 2
    /\ prev_results' = results
    /\ pc' = IF pipeline = "full" THEN "diff" ELSE "extract"
    /\ exit_code' = -1
    /\ exit_path' = "running"
    /\ existing_files' = {}
    /\ present_count' = 0
    /\ missing_count' = 0
    /\ to_process' = <<>>
    /\ index' = 0
    /\ results' = <<>>
    /\ total_bytes' = 0
    /\ downloaded_count' = 0
    /\ failed' = FALSE
    /\ gets' = <<>>
    /\ sleeps' = <<>>
    /\ written' = <<>>
    /\ UNCHANGED <<args, disk, fetch_state, scan_dirs, scan_names>>

NextResume ==
    \/ Next
    \/ Rerun

SpecResume == Init /\ [][NextResume]_vars

\* ===================================================================
\* Properties
\* ===================================================================
Outcomes == {"Downloaded", "Skipped", "Failed"}

\* state of work item i: Pending until its row is in results
ItemState(i) == IF i <= Len(results) THEN results[i].status ELSE "Pending"

SomeFailed == \E i \in 1..Len(results) : results[i].status = "Failed"

NoArchiveGet == \A i \in 1..Len(gets) : gets[i] = 0

\* no path of the target directory was opened for writing
Untouched == \A n \in Names : target_files[n] \in InitialKinds

\* the GET of the index/listing page did not give a page
ListingUnreachable == index_resp.status \in {"conn_error", "http_error"}

\* the catalogue came out empty
CatalogEmpty ==
    /\ parsed
    /\ \/ pipeline = "full" /\ link_map = <<>>
       \/ pipeline = "telefunken" /\ detail_links = <<>>
       \/ pipeline = "telefunken" /\ link_pos = Len(detail_links) /\ entries = <<>>

\* C1: failure isolation in the download loop.  At every moment the rows of
\* results are the outcomes of the first work items, one row per item and in
\* work-list order, and a run that entered the loop ends only when every
\* work item has its row, whichever items failed.
C1_FailureIsolation ==
    /\ Len(results) <= Len(to_process)
    /\ \A i \in 1..Len(results) :
         /\ results[i].filename = to_process[i].filename
         /\ results[i].status \in Outcomes
    /\ (pc = "done" /\ (results # <<>> \/ exit_path \notin
                          {"cookie_file", "fetch_error", "no_links", "no_entries",
                           "nothing_to_do", "dry_run"}))
          => Len(results) = Len(to_process)

\* item 2 of 3 failed, items 1 and 3 were downloaded, the run is over
C1_Witness ==
    /\ pc = "done"
    /\ Len(to_process) = 3
    /\ Len(results) = 3
    /\ results[1].status = "Downloaded"
    /\ results[2].status = "Failed"
    /\ results[3].status = "Downloaded"

\* C2 as stated: a finished run has exit code 1 exactly when some work item
\* ended Failed or the fetch of the index/listing raised, and 0 otherwise.
C2_Original ==
    pc = "done" =>
      /\ exit_code \in {0, 1}
      /\ exit_code = 1 <=> (SomeFailed \/ ListingUnreachable
                              \/ (pipeline = "full" /\ index_resp.marker))

\* C2 as amended: a finished run has exit code 1 exactly when some work item
\* ended Failed, the fetch of the index/listing raised, the catalogue came
\* out empty, or the cookie file could not be read; it is 0 otherwise.
C2_ExitCode ==
    pc = "done" =>
      /\ exit_code \in {0, 1}
      /\ exit_code = 1 <=> \/ SomeFailed
                           \/ ListingUnreachable
                           \/ (pipeline = "full" /\ index_resp.marker)
                           \/ CatalogEmpty
                           \/ cookie_read_failed

\* a run that went through the loop with a failed item and returned 1
C2_Witness ==
    /\ pc = "done"
    /\ exit_code = 1
    /\ SomeFailed
    /\ Len(results) = Len(to_process)

\* C3: with delay > 0 a run that completes the loop over N >= 1 items has
\* slept exactly N-1 times, once after each item but the last; with
\* delay <= 0 it has not slept.
C3_DelayPacing ==
    (pc = "done" /\ exit_path = "finished") =>
      IF delay > 0
      THEN sleeps = [i \in 1..(Len(to_process) - 1) |-> i]
      ELSE sleeps = <<>>

\* the step of the download loop that handles one work item
LoopStep == index' = index + 1

\* C4: a turn of the loop whose destination exists while overwrite is off
\* records Skipped, adds no bytes and no download, issues no GET and leaves
\* the target directory as it was.
C4_SkipSemantics ==
    [][(LoopStep /\ Exists(target_files[to_process[index + 1].filename]) /\ ~overwrite)
         => /\ results'[index + 1].status = "Skipped"
            /\ total_bytes' = total_bytes
            /\ downloaded_count' = downloaded_count
            /\ gets' = gets
            /\ target_files' = target_files]_vars

\* an item was skipped
C4_Witness ==
    /\ \E i \in 1..Len(results) :
         /\ results[i].status = "Skipped"
         /\ gets[i] = 0
         /\ Exists(target_files[results[i].filename])
    /\ ~overwrite

\* the catalogue handed to the diff engine
Catalog == IF pipeline = "full" THEN link_map ELSE entries

\* the diff engine has run
DiffDone ==
    \/ pc \in {"loop", "sleep"}
    \/ pc = "done" /\ exit_path \in {"nothing_to_do", "dry_run", "finished"}

RECURSIVE Missing(_, _)
\* the entries of a catalogue whose lower-cased filename is not in a set
Missing(catalog, present) ==
    IF catalog = <<>> THEN <<>>
    ELSE IF Lower(Head(catalog).filename) \in present
         THEN Missing(Tail(catalog), present)
         ELSE <<Head(catalog)>> \o Missing(Tail(catalog), present)

\* C5: the work list is the catalogue entries, in catalogue order, whose
\* lower-cased filename is not in the inventory (the whole catalogue with
\* overwrite on); present_count is the number of catalogue entries whose
\* lower-cased filename is in the inventory; missing_count is the length of
\* the work list.
C5_DiffEngine ==
    DiffDone =>
      /\ to_process = IF overwrite THEN Catalog ELSE Missing(Catalog, existing_files)
      /\ present_count = Cardinality({i \in 1..Len(Catalog) :
                                        Lower(Catalog[i].filename) \in existing_files})
      /\ missing_count = Len(to_process)

\* C6: the catalogue handed to the diff engine holds no two entries whose
\* filenames are equal after lower-casing.
C6_CatalogUnique ==
    DiffDone =>
      \A i, j \in 1..Len(Catalog) :
        i # j => Lower(Catalog[i].filename) # Lower(Catalog[j].filename)

C8_FatalShortCircuit ==
    (pc = "done" /\ (\/ ListingUnreachable
                     \/ (pipeline = "full" /\ index_resp.marker)
                     \/ CatalogEmpty))
      => /\ exit_code = 1
         /\ NoArchiveGet
         /\ Untouched
         /\ results = <<>>

\* telefunken: every detail page was dropped and the run ended, with
\* something on disk
C8_Witness ==
    /\ pc = "done"
    /\ pipeline = "telefunken"
    /\ detail_links # <<>>
    /\ link_pos = Len(detail_links)
    /\ entries = <<>>
    /\ \E n \in Names : target_files[n] = "old"

\* C9 as stated: with the dry-run flag no archive GET is issued, no path of
\* the target directory is written, and the run returns 0 once the
\* index/listing was fetched.
C9_Original ==
    dry_run =>
      /\ NoArchiveGet
      /\ Untouched
      /\ (pc = "done" /\ parsed) => exit_code = 0

\* C9 as amended: with the dry-run flag no archive GET is issued, no path of
\* the target directory is written, and the run returns 0 once the
\* index/listing was fetched and gave a non-empty catalogue.
C9_DryRun ==
    dry_run =>
      /\ NoArchiveGet
      /\ Untouched
      /\ results = <<>>
      /\ (pc = "done" /\ parsed /\ ~CatalogEmpty) => exit_code = 0

\* a dry run with work to do, overwrite on and a file in place, ended with 0
C9_Witness ==
    /\ dry_run
    /\ overwrite
    /\ pc = "done"
    /\ exit_code = 0
    /\ to_process # <<>>
    /\ \E i \in 1..Len(to_process) : target_files[to_process[i].filename] = "old"

\* C10: every work item is Pending until its turn and then in one terminal
\* state for good; it becomes Skipped only with the destination in place
\* and overwrite off and without a GET, Downloaded only with one GET and
\* the file written whole, Failed only with one GET; no item has more than
\* one GET and a run that completes the loop leaves no item Pending.
C10_ItemStateMachine ==
    /\ [](\A i \in 1..Len(to_process) :
            /\ ItemState(i) \in Outcomes \cup {"Pending"}
            /\ gets[i] <= 1
            /\ ItemState(i) \in {"Pending", "Skipped"} => gets[i] = 0
            /\ ItemState(i) \in {"Downloaded", "Failed"} => gets[i] = 1
            /\ (pc = "done" /\ exit_path = "finished") => ItemState(i) # "Pending")
    /\ [][\A i \in 1..Len(to_process) :
            /\ ItemState(i) # "Pending" => ItemState(i)' = ItemState(i)
            /\ (ItemState(i) = "Pending" /\ ItemState(i)' = "Skipped")
                 => Exists(target_files[to_process[i].filename]) /\ ~overwrite
            /\ (ItemState(i) = "Pending" /\ ItemState(i)' = "Downloaded")
                 => target_files'[to_process[i].filename] = "full"]_vars

\* the three terminal states side by side in one finished run
C10_Witness ==
    /\ pc = "done"
    /\ \E i, j, k \in 1..Len(results) :
         /\ results[i].status = "Skipped"
         /\ results[j].status = "Downloaded"
         /\ results[k].status = "Failed"

\* C11: the result of gather_existing_files is exactly the lower-cased
\* names of the regular files that lie directly inside those candidates that
\* are directories; a candidate that does not exist or is not a directory
\* gives nothing; and an entry of the catalogue whose lower-cased name it
\* holds is kept out of the work list when overwrite is off.
C11_InventoryScan ==
    pc = "scanned" =>
      /\ \A name \in Names :
           name \in scan_names <=>
             \E i \in 1..Len(scan_dirs), m \in Names :
               /\ scan_dirs[i].kind = "dir"
               /\ scan_dirs[i].entries[m] \in {"old", "partial", "full"}
               /\ name = Lower(m)
      /\ scan_names \subseteq {Lower(m) : m \in Names}
      /\ \A name \in Names :
           (\E i \in 1..Len(scan_dirs), m \in Names :
              /\ scan_dirs[i].kind = "dir"
              /\ scan_dirs[i].entries[m] = "old"
              /\ Lower(m) = Lower(name))
             => work_list(<<[filename |-> name, url |-> 1]>>, scan_names, FALSE) = <<>>

\* a path that does not exist, then a directory holding the file A.zip and
\* the sub-directory b.zip: the scan gave a.zip alone
C11_Witness ==
    /\ pc = "scanned"
    /\ Len(scan_dirs) = 2
    /\ scan_dirs[1].kind = "missing"
    /\ scan_dirs[2].kind = "dir"
    /\ scan_dirs[2].entries["A.zip"] = "old"
    /\ scan_dirs[2].entries["a.zip"] = "none"
    /\ scan_dirs[2].entries["b.zip"] = "dir"
    /\ scan_names = {"a.zip"}

\* C12: in the telefunken pipeline every detail page handled so far is
\* either an entry of the catalogue or a reported warning, never both and
\* never neither, so a page that fails takes away its own entry only; the
\* diff engine runs after the last detail page and every extracted entry is
\* in the work list unless the inventory holds it with overwrite off; a run
\* with warnings and at least one entry does not end before the diff engine.
C12_EntryRecovery ==
    pipeline = "telefunken" =>
      /\ link_pos <= Len(detail_links)
      /\ {entries[i].detail : i \in 1..Len(entries)} \cup warned
           = {detail_links[k] : k \in 1..link_pos}
      /\ {entries[i].detail : i \in 1..Len(entries)} \cap warned = {}
      /\ Len(entries) + Cardinality(warned) = link_pos
      /\ DiffDone =>
           /\ link_pos = Len(detail_links)
           /\ \A i \in 1..Len(entries) :
                \/ \E j \in 1..Len(to_process) : to_process[j] = entries[i]
                \/ Lower(entries[i].filename) \in existing_files /\ ~overwrite
      /\ (pc = "done" /\ warned # {} /\ entries # <<>>) => DiffDone

\* the first detail page failed, the second gave an entry, and that entry
\* was downloaded
C12_Witness ==
    /\ pipeline = "telefunken"
    /\ pc = "done"
    /\ detail_links = <<1, 2>>
    /\ warned = {1}
    /\ Len(entries) = 1
    /\ entries[1].detail = 2
    /\ Len(results) = 1
    /\ results[1].status = "Downloaded"

\* C13: in the telefunken pipeline the detail links are in strictly
\* increasing order, so sorted and free of duplicates, whichever branch
\* returned them; when the listing page was read (the JSON API attempt gave
\* nothing) no link is the listing URL and every link passes the segment
\* test; while the fallback is pending the run has neither ended nor
\* produced links, and a run ends on a fetch error only when the GET of the
\* listing page itself raised.
C13_FallbackLinks ==
    pipeline = "telefunken" =>
      /\ \A i, j \in 1..Len(detail_links) :
           i < j => detail_links[i] < detail_links[j]
      /\ index_resp.status = "ok" =>
           \A i \in 1..Len(detail_links) :
             /\ detail_links[i] # 0
             /\ HasSegment(detail_links[i])
      /\ pc = "fetch_html" =>
           /\ ~parsed
           /\ detail_links = <<>>
           /\ exit_code = -1
      /\ exit_path = "fetch_error" => ListingUnreachable
      /\ (index_resp.status = "ok" /\ pc # "fetch_html") => parsed

\* the API attempt gave nothing, the listing page was read and gave two
\* detail links
C13_Witness ==
    /\ pipeline = "telefunken"
    /\ index_resp.status = "ok"
    /\ parsed
    /\ detail_links = <<1, 2>>
    /\ pc = "extract"
    /\ link_pos = 0

RECURSIVE DownloadedBytes(_)
\* the bytes written for the Downloaded rows among the first n rows
DownloadedBytes(n) ==
    IF n = 0 THEN 0
    ELSE DownloadedBytes(n - 1)
           + (IF results[n].status = "Downloaded" THEN written[n] ELSE 0)

\* C14: session accumulation.  After any prefix of the work list,
\* downloaded_count is the number of rows recorded as Downloaded,
\* total_bytes is the sum of bytes_written over exactly those rows (a Failed
\* item returns no count and a Skipped item returns 0, so neither adds to
\* it), and failed is true exactly when some row is Failed.
C14_SessionAccumulation ==
    /\ Len(written) = Len(results)
    /\ downloaded_count
         = Cardinality({i \in 1..Len(results) : results[i].status = "Downloaded"})
    /\ total_bytes = DownloadedBytes(Len(results))
    /\ failed <=> SomeFailed
    /\ \A i \in 1..Len(results) : results[i].status = "Skipped" => written[i] = 0

\* two items downloaded with different sizes around one that failed
C14_Witness ==
    /\ pc = "done"
    /\ Len(results) = 3
    /\ results[1].status = "Downloaded"
    /\ results[2].status = "Failed"
    /\ results[3].status = "Downloaded"
    /\ written[1] = 1
    /\ written[3] = 2
    /\ downloaded_count = 2
    /\ total_bytes = 3
    /\ failed

\* the run before the following run recorded no Failed row and was no dry
\* run
PreviousRunSucceeded ==
    /\ ~dry_run
    /\ \A i \in 1..Len(prev_results) : prev_results[i].status # "Failed"

\* C15: resumability across runs, as the specification has it.  In the
\* following run with overwrite off, once the diff engine has run, every
\* filename that ended Failed in the run before is in the work list again,
\* and when the run is over it was attempted (a GET was issued for it); after
\* a run without failures the work list is empty, no GET is issued and the
\* exit code is 0.
C15_Resumable ==
    (run = 2 /\ ~overwrite /\ DiffDone) =>
      /\ \A i \in 1..Len(prev_results) :
           prev_results[i].status = "Failed" =>
             \E j \in 1..Len(to_process) :
               /\ to_process[j].filename = prev_results[i].filename
               /\ (pc = "done" /\ exit_path = "finished") => gets[j] >= 1
      /\ PreviousRunSucceeded =>
           /\ to_process = <<>>
           /\ NoArchiveGet
           /\ pc = "done" => exit_code = 0

\* C16: count consistency, as the specification has it.  Once the diff
\* engine has run, with overwrite off present_count + missing_count is the
\* number of discovered archives; with overwrite on missing_count is that
\* number and the sum is at least it.
C16_CountConsistency ==
    DiffDone =>
      /\ ~overwrite => present_count + missing_count = Len(Catalog)
      /\ overwrite =>
           /\ missing_count = Len(Catalog)
           /\ present_count + missing_count >= Len(Catalog)

====
